---------------------------- MODULE Spec2Model ----------------------------
(***************************************************************************)
(* A model of generate_ics.py: one run of the Excel -> ICS generator.      *)
(*                                                                         *)
(* Strings are TLA+ strings, processed character by character the way the  *)
(* Python code does (strip, lower, strptime, strftime, join).  A cell of   *)
(* the worksheet is None or a string (openpyxl with values_only=True);     *)
(* the tables drawn here hold text cells only and carry the thirteen       *)
(* documented headers (no RRULE / EXDATE column).                          *)
(*                                                                         *)
(* src/generate_ics.py stops in the middle of the all-day branch (line     *)
(* 205).  What follows that line - the DTSTART/DTEND lines, the timed      *)
(* branch, END:VEVENT, END:VCALENDAR and the write of the file - is        *)
(* modelled from the specification and marked so in the definitions.       *)
(***************************************************************************)
EXTENDS Integers, Sequences, FiniteSets, TLC

(***************************************************************************)
(* Bounds of the model.                                                    *)
(***************************************************************************)
\* The longest table (data rows) a run reads.
MaxRows == 2

\* The most runs of the program over one workbook (SpecRuns only).
MaxRuns == 2

(***************************************************************************)
(* Python values.                                                          *)
(***************************************************************************)
\* A cell: None, or a string s carried as <<s>>.
None == <<>>

Str(s) == <<s>>

\* Python truthiness of a cell: None and "" are falsy.
Truthy(c) == c # None /\ c[1] # ""

\* Raised is the result of a call that raised ValueError.
Raised == [k |-> "raised"]

NoneDT == [k |-> "none"]

DT(y, m, d, H, M) == [k |-> "dt", y |-> y, m |-> m, d |-> d, H |-> H, M |-> M]

(***************************************************************************)
(* str methods.                                                            *)
(***************************************************************************)
Ch(s, i) == SubSeq(s, i, i)

IsSpace(c) == c \in {" ", "\t", "\n", "\r"}

RECURSIVE lstrip(_)
lstrip(s) == IF s # "" /\ IsSpace(Head(s)) THEN lstrip(Tail(s)) ELSE s

RECURSIVE rstrip(_)
rstrip(s) ==
    IF s # "" /\ IsSpace(Ch(s, Len(s))) THEN rstrip(SubSeq(s, 1, Len(s) - 1)) ELSE s

\* str.strip()
strip(s) == rstrip(lstrip(s))

LowerCh(c) ==
    CASE c = "A" -> "a" [] c = "B" -> "b" [] c = "C" -> "c" [] c = "D" -> "d"
      [] c = "E" -> "e" [] c = "F" -> "f" [] c = "G" -> "g" [] c = "H" -> "h"
      [] c = "I" -> "i" [] c = "J" -> "j" [] c = "K" -> "k" [] c = "L" -> "l"
      [] c = "M" -> "m" [] c = "N" -> "n" [] c = "O" -> "o" [] c = "P" -> "p"
      [] c = "Q" -> "q" [] c = "R" -> "r" [] c = "S" -> "s" [] c = "T" -> "t"
      [] c = "U" -> "u" [] c = "V" -> "v" [] c = "W" -> "w" [] c = "X" -> "x"
      [] c = "Y" -> "y" [] c = "Z" -> "z" [] OTHER -> c

\* str.lower()
RECURSIVE lower(_)
lower(s) == IF s = "" THEN "" ELSE LowerCh(Head(s)) \o lower(Tail(s))

\* sep.join(parts)
RECURSIVE join(_, _)
join(sep, parts) ==
    IF parts = <<>> THEN ""
    ELSE IF Len(parts) = 1 THEN parts[1]
    ELSE parts[1] \o sep \o join(sep, Tail(parts))

(***************************************************************************)
(* datetime.strptime and strftime.                                         *)
(***************************************************************************)
IsDigit(c) == c \in {"0", "1", "2", "3", "4", "5", "6", "7", "8", "9"}

DigitVal(c) ==
    CASE c = "0" -> 0 [] c = "1" -> 1 [] c = "2" -> 2 [] c = "3" -> 3
      [] c = "4" -> 4 [] c = "5" -> 5 [] c = "6" -> 6 [] c = "7" -> 7
      [] c = "8" -> 8 [] c = "9" -> 9

DigitStr(n) ==
    CASE n = 0 -> "0" [] n = 1 -> "1" [] n = 2 -> "2" [] n = 3 -> "3"
      [] n = 4 -> "4" [] n = 5 -> "5" [] n = 6 -> "6" [] n = 7 -> "7"
      [] n = 8 -> "8" [] n = 9 -> "9"

RECURSIVE AllDigits(_)
AllDigits(s) == s = "" \/ (IsDigit(Head(s)) /\ AllDigits(Tail(s)))

\* The value of a string of digits.
RECURSIVE NumVal(_)
NumVal(s) ==
    IF s = "" THEN 0
    ELSE 10 * NumVal(SubSeq(s, 1, Len(s) - 1)) + DigitVal(Ch(s, Len(s)))

\* The value of a directive's match, which may start with a blank (%d).
FieldVal(s) == NumVal(lstrip(s))

\* strptime's regular expressions of the directives the program uses.
\* %Y: \d\d\d\d
MatchY(s) == Len(s) = 4 /\ AllDigits(s)

\* %m: 1[0-2]|0[1-9]|[1-9]
Matchm(s) ==
    \/ Len(s) = 2 /\ Ch(s, 1) = "1" /\ Ch(s, 2) \in {"0", "1", "2"}
    \/ Len(s) = 2 /\ Ch(s, 1) = "0" /\ IsDigit(Ch(s, 2)) /\ Ch(s, 2) # "0"
    \/ Len(s) = 1 /\ IsDigit(s) /\ s # "0"

\* %d: 3[0-1]|[1-2]\d|0[1-9]|[1-9]| [1-9]
Matchd(s) ==
    \/ Len(s) = 2 /\ Ch(s, 1) = "3" /\ Ch(s, 2) \in {"0", "1"}
    \/ Len(s) = 2 /\ Ch(s, 1) \in {"1", "2"} /\ IsDigit(Ch(s, 2))
    \/ Len(s) = 2 /\ Ch(s, 1) \in {"0", " "} /\ IsDigit(Ch(s, 2)) /\ Ch(s, 2) # "0"
    \/ Len(s) = 1 /\ IsDigit(s) /\ s # "0"

\* %H: 2[0-3]|[0-1]\d|\d
MatchH(s) ==
    \/ Len(s) = 2 /\ Ch(s, 1) = "2" /\ Ch(s, 2) \in {"0", "1", "2", "3"}
    \/ Len(s) = 2 /\ Ch(s, 1) \in {"0", "1"} /\ IsDigit(Ch(s, 2))
    \/ Len(s) = 1 /\ IsDigit(s)

\* %M: [0-5]\d|\d
MatchM(s) ==
    \/ Len(s) = 2 /\ Ch(s, 1) \in {"0", "1", "2", "3", "4", "5"} /\ IsDigit(Ch(s, 2))
    \/ Len(s) = 1 /\ IsDigit(s)

\* The first position of character c in s, 0 when there is none.
RECURSIVE Find(_, _, _)
Find(s, c, i) ==
    IF i > Len(s) THEN 0 ELSE IF Ch(s, i) = c THEN i ELSE Find(s, c, i + 1)

IsLeap(y) == (y % 4 = 0 /\ y % 100 # 0) \/ y % 400 = 0

DaysInMonth(y, m) ==
    IF m = 2 THEN (IF IsLeap(y) THEN 29 ELSE 28)
    ELSE IF m \in {4, 6, 9, 11} THEN 30 ELSE 31

\* datetime.strptime(s, "%Y-%m-%d"): the whole of s must match
\* %Y "-" %m "-" %d, and the date must exist; otherwise ValueError.
strptime_date(s) ==
    LET p1 == Find(s, "-", 1)
        rest == IF p1 = 0 THEN "" ELSE SubSeq(s, p1 + 1, Len(s))
        p2 == Find(rest, "-", 1)
        ys == IF p1 = 0 THEN "" ELSE SubSeq(s, 1, p1 - 1)
        ms == IF p2 = 0 THEN "" ELSE SubSeq(rest, 1, p2 - 1)
        ds == IF p2 = 0 THEN "" ELSE SubSeq(rest, p2 + 1, Len(rest))
    IN  IF p1 = 0 \/ p2 = 0 \/ ~MatchY(ys) \/ ~Matchm(ms) \/ ~Matchd(ds)
        THEN Raised
        ELSE IF NumVal(ys) < 1 \/ FieldVal(ds) > DaysInMonth(NumVal(ys), NumVal(ms))
        THEN Raised
        ELSE DT(NumVal(ys), NumVal(ms), FieldVal(ds), 0, 0)

\* datetime.strptime(s, "%H:%M"): a time on 1900-01-01, or ValueError.
strptime_time(s) ==
    LET p == Find(s, ":", 1)
        hs == IF p = 0 THEN "" ELSE SubSeq(s, 1, p - 1)
        mins == IF p = 0 THEN "" ELSE SubSeq(s, p + 1, Len(s))
    IN  IF p = 0 \/ ~MatchH(hs) \/ ~MatchM(mins)
        THEN Raised
        ELSE DT(1900, 1, 1, NumVal(hs), NumVal(mins))

Pad2(n) == DigitStr((n \div 10) % 10) \o DigitStr(n % 10)

\* %Y of strftime for the years 1000..9999.
Pad4(n) == Pad2(n \div 100) \o Pad2(n % 100)


(***************************************************************************)
(* Configuration and helpers of generate_ics.py.                           *)
(***************************************************************************)
DEFAULT_TZ == "Australia/Sydney"

\* AUS_TZ_VTIMEZONE.strip(): one element of lines, holding sixteen lines.
AUS_TZ_VTIMEZONE ==
    "BEGIN:VTIMEZONE\nTZID:Australia/Sydney\nBEGIN:STANDARD\n"
    \o "DTSTART:19700405T030000\nTZOFFSETFROM:+1100\nTZOFFSETTO:+1000\n"
    \o "TZNAME:AEST\nRRULE:FREQ=YEARLY;BYMONTH=4;BYDAY=1SU\nEND:STANDARD\n"
    \o "BEGIN:DAYLIGHT\nDTSTART:19701004T020000\nTZOFFSETFROM:+1000\n"
    \o "TZOFFSETTO:+1100\nTZNAME:AEDT\nRRULE:FREQ=YEARLY;BYMONTH=10;BYDAY=1SU\n"
    \o "END:DAYLIGHT\nEND:VTIMEZONE"

\* dt.strftime("%Y%m%dT%H%M%S"); the seconds are always 0 here.
fmt_local(dt) ==
    Pad4(dt.y) \o Pad2(dt.m) \o Pad2(dt.d) \o "T" \o Pad2(dt.H) \o Pad2(dt.M) \o "00"

\* fmt_date with the format of the cells, "%Y-%m-%d".
fmt_date_hyphenated(d) == Pad4(d.y) \o "-" \o Pad2(d.m) \o "-" \o Pad2(d.d)

\* d.strftime("%Y%m%d")
fmt_date(d) == Pad4(d.y) \o Pad2(d.m) \o Pad2(d.d)

\* parse_date(s) for a str s: None for "", else strptime of the stripped text.
parse_date(s) == IF s = "" THEN NoneDT ELSE strptime_date(strip(s))

\* parse_time(s) for a str s.
parse_time(s) == IF s = "" THEN NoneDT ELSE strptime_time(strip(s))

\* parse_datetime that drops the minutes of the time.
parse_datetime_whole_hours(date_str, time_str) ==
    LET d == parse_date(date_str)
        t == parse_time(time_str)
    IN  IF d.k # "dt" THEN d
        ELSE IF time_str = "" THEN DT(d.y, d.m, d.d, 0, 0)
        ELSE IF t.k # "dt" THEN t
        ELSE DT(d.y, d.m, d.d, t.H, 0)

\* parse_datetime(date_str, time_str): an exception of either parse propagates.
parse_datetime(date_str, time_str) ==
    LET d == parse_date(date_str)
        t == parse_time(time_str)
    IN  IF d.k # "dt" THEN d
        ELSE IF time_str = "" THEN DT(d.y, d.m, d.d, 0, 0)
        ELSE IF t.k # "dt" THEN t
        ELSE DT(d.y, d.m, d.d, t.H, t.M)

\* truthy without the lower-casing.
truthy_case_sensitive(val) ==
    IF val = None THEN FALSE
    ELSE strip(val[1]) \in {"true", "yes", "y", "1", "transparent", "free"}

\* truthy(val) for a cell val.
truthy(val) ==
    IF val = None THEN FALSE
    ELSE lower(strip(val[1])) \in {"true", "yes", "y", "1", "transparent", "free"}

\* hashlib.sha1(text.encode("utf-8")).hexdigest()[:16], for the texts that
\* the rows of the catalogue are joined to.
Sha1Hex16 ==
    "CS101|Lecture|2025-03-10|2025-03-11|09:00|10:30" :> "9e026bc5f192680f" @@
    "CS101|Lecture|2025-03-10|2025-03-11|09:00|10:30|" :> "8f51e2502837f27b" @@
    "CS101|Lecture|2025-03-10||09:00|" :> "484004a37df4e7e2" @@
    "CS101|Lecture|2025-03-10||09:00|10:30" :> "ca77a60ccd71247b" @@
    "CS101|Lecture|2025-03-10||09:00|10:30|" :> "2405068d08ac4c3c" @@
    "CS101|Lecture|2025-03-10||09:00|10:30|Hall A" :> "8ee9faf970d08702" @@
    "CS101|Lecture|2025-03-10||09:00||" :> "15be6708613b8c78" @@
    "CS101|Lecture|2025-03-10|||10:30" :> "9c39370c8ed5e9c2" @@
    "CS101|Lecture|2025-03-10|||10:30|" :> "2c3740a5d5ec68bb" @@
    "CS101|Lecture|2025-3-9||09:00|10:30" :> "0cd34d7af55c9a91" @@
    "CS101|Lecture|2025-3-9||09:00|10:30|" :> "c888e7dfcc6699bb" @@
    "CS101|Lecture|||09:00|10:30|" :> "1a17479800932cb1" @@
    "CS101|Lecture|||09:00||" :> "b525f5ec3ae86dbf" @@
    "CS101|Lecture||||10:30|" :> "d9b89fc20b9de5a0" @@
    "CS101|Tutorial|2025-03-10||09:00|10:30" :> "139638f15b4a9a2b" @@
    "CS101|Tutorial|2025-03-10||09:00|10:30|" :> "6b166741fa496b93" @@
    "CS101|Tutorial|||09:00|10:30|" :> "0925a70db8000bea" @@
    "MATH2|Break|2025-12-30|2025-12-31||" :> "4a954a8c97e43d8b" @@
    "MATH2|Break|2025-12-30|2025-12-31|||" :> "45326c242ecf798e" @@
    "MATH2|Break|||||" :> "e7faa5bd58b4f3c1" @@
    "|Exam|||||" :> "a2afc9d378b8ce5f" @@
    "|Field trip|10/03/2025|||" :> "650ee5d8579a0923" @@
    "|Field trip|10/03/2025||||" :> "df26713be6571bae" @@
    "|Field trip|||||" :> "ae8cf695556d1c31" @@
    "|Intro Lecture|2025-03-10|2025-03-10||" :> "9749b5ac0370e3a8" @@
    "|Intro Lecture|2025-03-10|2025-03-10|||Hall A" :> "28bfcdda76bdac5a" @@
    "|Intro Lecture|||||" :> "85395d6e4f231642" @@
    "|Lecture|2025-03-10||09:00|10:30" :> "066cbb08e4538ec8" @@
    "|Lecture|2025-03-10||09:00|10:30|" :> "d4795d361d818d46" @@
    "|Lecture|||09:00|10:30|" :> "f561093a7a845e79" @@
    "|Quiz|||09:00||" :> "1512d34d6adae682" @@
    "|Seminar|2025-03-10|2025-02-30||" :> "54732698fcd31968" @@
    "|Seminar|2025-03-10|2025-02-30|||" :> "d6497f3d1b0a5cbd" @@
    "|Seminar|||||" :> "bb8755df9c920bf1" @@
    "|Workshop|2025-03-10||09:00|9am" :> "e0b181b5dd83d960" @@
    "|Workshop|2025-03-10||09:00|9am|" :> "ceb764b9b052b3ca" @@
    "|Workshop|||09:00|9am|" :> "8e78f5cec5eaec1a"

sha1_hex16(text) == Sha1Hex16[text]

\* make_uid(fields)
make_uid(fields) == sha1_hex16(join("|", fields)) \o "@youruni"

(***************************************************************************)
(* The workbook: the sheet's header row and data rows.                     *)
(***************************************************************************)
\* A column of a sheet: its header cell h and the field f of the event its
\* cells hold ("" for a column that holds nothing of the event).
Column(h, f) == [h |-> h, f |-> f]

\* The documented headers, in the documented order.
LayoutDocumented ==
    << Column(Str("Unique ID"), "uid"), Column(Str("Course Code"), "course"),
       Column(Str("Title"), "title"), Column(Str("Category"), "cat"),
       Column(Str("Start Date"), "sdate"), Column(Str("Start Time"), "stime"),
       Column(Str("End Date"), "edate"), Column(Str("End Time"), "etime"),
       Column(Str("Timezone"), "tz"), Column(Str("Location"), "loc"),
       Column(Str("Description"), "desc"), Column(Str("Link"), "url"),
       Column(Str("TRANSPARENT"), "transp") >>

\* Headers in another order and letter case, padded, with an empty header
\* cell and an unknown header; no Category, Timezone, Description, Link or
\* TRANSPARENT column.
LayoutTerse ==
    << Column(Str(" title "), "title"), Column(Str("START DATE"), "sdate"),
       Column(None, ""), Column(Str("start time"), "stime"),
       Column(Str("End Time"), "etime"), Column(Str("End date"), "edate"),
       Column(Str("course code"), "course"), Column(Str("LOCATION"), "loc"),
       Column(Str("Notes"), ""), Column(Str("unique id"), "uid") >>

\* A sheet without a Start Date column.
LayoutNoStart ==
    << Column(Str("Title"), "title"), Column(Str("Course Code"), "course"),
       Column(Str("Start Time"), "stime"), Column(Str("End Time"), "etime"),
       Column(Str("Timezone"), "tz"), Column(Str("TRANSPARENT"), "transp") >>

Layouts == <<LayoutDocumented, LayoutTerse, LayoutNoStart>>

\* The cells of one event, by field.
Event(uid, course, title, cat, sdate, stime, edate, etime, tz, loc, desc, url, transp) ==
    [uid |-> uid, course |-> course, title |-> title, cat |-> cat,
     sdate |-> sdate, stime |-> stime, edate |-> edate, etime |-> etime,
     tz |-> tz, loc |-> loc, desc |-> desc, url |-> url, transp |-> transp]

\* The timed lecture of the specification's scenario.
EvLecture ==
    Event(None, Str("CS101"), Str("Lecture"), Str("Class"), Str("2025-03-10"),
          Str("09:00"), None, Str("10:30"), Str("Australia/Sydney"), None,
          None, None, Str("TRUE"))

\* The events of the sheets the program is run over more than once.
IdCatalogue ==
    { EvLecture,
      \* the lecture again: padded cells, other category, timezone,
      \* description, link and transparency
      Event(None, Str(" CS101"), Str("Lecture "), Str("Lab"), Str("2025-03-10"),
            Str("09:00"), Str(""), Str("10:30"), Str("  "), None,
            Str("Bring laptop"), Str("https://uni.example/cs101"), Str("no")),
      \* the lecture with one of the seven identifying fields changed
      [EvLecture EXCEPT !.course = None, !.transp = Str("Yes")],
      [EvLecture EXCEPT !.title = Str("Tutorial"), !.transp = Str("1")],
      [EvLecture EXCEPT !.sdate = Str("2025-3-9"), !.transp = Str("free")],
      [EvLecture EXCEPT !.edate = Str("2025-03-11"), !.transp = Str("y")],
      [EvLecture EXCEPT !.stime = None, !.tz = Str("Europe/London"),
                        !.transp = Str("transparent")],
      [EvLecture EXCEPT !.etime = None, !.tz = None, !.transp = Str("maybe")],
      [EvLecture EXCEPT !.loc = Str("Hall A"), !.transp = Str(" True ")],
      \* a row with a Unique ID: an all-day event at the end of February
      Event(Str(" exam-1 "), None, Str("Exam"), Str("Assessment"),
            Str(" 2024-02-28 "), None, None, None, None, None, None, None,
            Str("")),
      \* a row without a title
      Event(None, Str("CS101"), Str(" \t"), None, Str("2025-03-10"), None,
            None, None, None, None, None, None, None),
      \* a start date that is no date
      Event(None, None, Str("Field trip"), None, Str("10/03/2025"), None,
            None, None, None, None, None, None, None) }

\* The events a sheet may hold.
Catalogue ==
    IdCatalogue \cup
    { \* the all-day scenario of the specification
      Event(None, None, Str("Intro Lecture"), None, Str("2025-03-10"), None,
            Str("2025-03-10"), None, None, Str("Hall A"), None, None, None),
      \* rows without a title or without a start date
      Event(Str("u-17"), None, None, None, Str("2025-03-10"), Str("09:00"),
            None, None, None, None, None, None, Str("free")),
      Event(None, None, Str("Quiz"), None, Str("  "), Str("09:00"), None,
            None, Str(" "), None, None, None, Str("yes")),
      \* an empty row
      Event(None, None, None, None, Str(""), None, None, None, None, None,
            None, None, None),
      \* an all-day event to the end of the year
      Event(None, Str("MATH2"), Str("Break"), None, Str("2025-12-30"), None,
            Str("2025-12-31"), None, None, None, None, None, Str("FREE")),
      \* an end date that is no day of the calendar, an end time that is no time
      Event(None, None, Str("Seminar"), None, Str("2025-03-10"), None,
            Str("2025-02-30"), None, None, None, None, None, None),
      Event(None, None, Str("Workshop"), None, Str("2025-03-10"), Str("09:00"),
            None, Str("9am"), None, None, None, None, None) }

\* The sequences over S of at most n elements.
RECURSIVE SeqsUpTo(_, _)
SeqsUpTo(S, n) ==
    IF n = 0 THEN {<<>>}
    ELSE LET shorter == SeqsUpTo(S, n - 1)
         IN  shorter \cup {Append(q, e) : q \in {t \in shorter : Len(t) = n - 1}, e \in S}

\* The instants of the runs, as datetime.utcnow() formats them.
Clock == <<"20250301T080000Z", "20250302T081500Z", "20250303T093000Z", "20250304T101500Z">>

VARIABLES
    sheetnames,  \* wb.sheetnames
    args_sheet,  \* args.sheet
    layout,      \* the columns of the sheet
    table,       \* the events of the sheet's data rows, in order
    run,         \* the number of this run of the program
    pc,          \* where the run is: start, loop, done, fatal, crashed
    cols,        \* col_UID .. col_TRANSP of main
    now_utc,     \* now_utc of main
    lines,       \* lines of main
    idx,         \* the data row the loop reads next
    recs,        \* the fields main extracted, one record for each row extracted
    out,         \* the text written to args.out, None when nothing was written
    exit_status, \* the status the process ended with, -1 while it runs
    prev         \* lines and recs of the runs before this one

vars ==
    <<sheetnames, args_sheet, layout, table, run, pc, cols, now_utc, lines,
      idx, recs, out, exit_status, prev>>

\* Data row i of the sheet as ws.iter_rows(values_only=True) yields it.
ws_row(i) ==
    [c \in 1..Len(Layouts[layout]) |->
        IF Layouts[layout][c].f = "" THEN None ELSE table[i][Layouts[layout][c].f]]

(***************************************************************************)
(* main: the header map.                                                   *)
(***************************************************************************)
\* Row 1 of a sheet with the columns lay.
hdr_cells(lay) == [i \in 1..Len(lay) |-> lay[i].h]

\* headers = [(h or "").strip() for h in hdr_cells], lower-cased as the
\* keys of header_map are.
header_keys(hc) ==
    [i \in 1..Len(hc) |-> lower(IF Truthy(hc[i]) THEN strip(hc[i][1]) ELSE "")]

\* header_map = {h.lower(): i for i, h in enumerate(headers)}: the last
\* column of a name wins; indexes count from 0.
header_map(keys) ==
    [name \in {keys[i] : i \in 1..Len(keys)} |->
        CHOOSE i \in 0..(Len(keys) - 1) :
            /\ keys[i + 1] = name
            /\ \A j \in 0..(Len(keys) - 1) : keys[j + 1] = name => j <= i]

\* col(name)
col(hm, name) == IF lower(name) \in DOMAIN hm THEN hm[lower(name)] ELSE -1

\* Lines 104-116: col_UID .. col_TRANSP for the header row hc.
columns(hc) ==
    LET hm == header_map(header_keys(hc))
    IN  [UID |-> col(hm, "Unique ID"), Course |-> col(hm, "Course Code"),
         Title |-> col(hm, "Title"), Cat |-> col(hm, "Category"),
         SDate |-> col(hm, "Start Date"), STime |-> col(hm, "Start Time"),
         EDate |-> col(hm, "End Date"), ETime |-> col(hm, "End Time"),
         TZ |-> col(hm, "Timezone"), Loc |-> col(hm, "Location"),
         Desc |-> col(hm, "Description"), URL |-> col(hm, "Link"),
         TRANSP |-> col(hm, "TRANSPARENT")]

\* columns of each of the layouts, worked out once.
ColumnsOf == [l \in 1..Len(Layouts) |-> columns(hdr_cells(Layouts[l]))]

\* (r[c] or "").strip() if c >= 0 and r[c] else ""
cell_text(r, c) == IF c >= 0 /\ Truthy(r[c + 1]) THEN strip(r[c + 1][1]) ELSE ""

\* r is None or all(v in (None, "") for v in r)
row_is_empty(r) == \A i \in 1..Len(r) : r[i] = None \/ r[i] = Str("")

(***************************************************************************)
(* main: one data row.                                                     *)
(***************************************************************************)
\* Lines 142-153: the fields of row r.  tz alone falls back to DEFAULT_TZ,
\* and only when the cell is falsy or the column is missing.
extract_tz(r) ==
    IF cols.TZ >= 0 /\ Truthy(r[cols.TZ + 1]) THEN strip(r[cols.TZ + 1][1]) ELSE DEFAULT_TZ

extract_transparent(r) ==
    IF cols.TRANSP >= 0 THEN truthy(r[cols.TRANSP + 1]) ELSE FALSE

extract(i, r) ==
    [row |-> i,
     title |-> cell_text(r, cols.Title),
     uid |-> cell_text(r, cols.UID),
     course |-> cell_text(r, cols.Course),
     cat |-> cell_text(r, cols.Cat),
     sdate |-> cell_text(r, cols.SDate),
     stime |-> cell_text(r, cols.STime),
     edate |-> cell_text(r, cols.EDate),
     etime |-> cell_text(r, cols.ETime),
     tz |-> extract_tz(r),
     location |-> cell_text(r, cols.Loc),
     desc |-> cell_text(r, cols.Desc),
     url |-> cell_text(r, cols.URL),
     is_transparent |-> extract_transparent(r)]

\* is_all_day = (not stime and not etime)
is_all_day(e) == e.stime = "" /\ e.etime = ""

\* base_fields without the location.
base_fields_without_location(e) == <<e.course, e.title, e.sdate, e.edate, e.stime, e.etime>>

\* base_fields = [course, title, sdate, edate or "", stime or "", etime or "", location]
base_fields(e) == <<e.course, e.title, e.sdate, e.edate, e.stime, e.etime, e.location>>

\* Lines 166-168: the uid of the cell, or the derived one.
event_uid(e) == IF e.uid = "" THEN make_uid(base_fields(e)) ELSE e.uid

\* The separator of line 170 is the three characters U+00E2 U+20AC U+201D
\* between two blanks; they are written here by their code points.
SummarySep == " <U+00E2><U+20AC><U+201D> "

\* summary = f"{course}<sep>{title}" if course else title
summary(e) == IF e.course # "" THEN e.course \o SummarySep \o e.title ELSE e.title

\* cats of lines 185-188
cats(e) ==
    (IF e.course # "" THEN <<e.course>> ELSE <<>>)
    \o (IF e.cat # "" THEN <<e.cat>> ELSE <<>>)
    \o (IF e.location # "" THEN <<e.location>> ELSE <<>>)

\* Lines 172-193: the lines appended before the branch on is_all_day.
event_head(e, now) ==
    << "BEGIN:VEVENT", "UID:" \o event_uid(e), "DTSTAMP:" \o now,
       "SUMMARY:" \o summary(e) >>
    \o (IF e.location # "" THEN <<"LOCATION:" \o e.location>> ELSE <<>>)
    \o (IF e.desc # "" THEN <<"DESCRIPTION:" \o e.desc>> ELSE <<>>)
    \o (IF e.url # "" THEN <<"URL:" \o e.url>> ELSE <<>>)
    \o (IF cats(e) # <<>> THEN <<"CATEGORIES:" \o join(",", cats(e))>> ELSE <<>>)
    \o << "TRANSP:" \o (IF e.is_transparent THEN "TRANSPARENT" ELSE "OPAQUE") >>

\* d + timedelta(days=1)
add_one_day(d) ==
    IF d.d < DaysInMonth(d.y, d.m) THEN [d EXCEPT !.d = d.d + 1]
    ELSE IF d.m < 12 THEN [d EXCEPT !.m = d.m + 1, !.d = 1]
    ELSE [d EXCEPT !.y = d.y + 1, !.m = 1, !.d = 1]

\* What the rest of an iteration does: the lines it appends, and whether it
\* ended by an exception.
Tail_(ls, raised) == [lines |-> ls, raised |-> raised]

\* Lines 195-205: the dates of the all-day branch.  strptime raises on a
\* start date or an end date that is no date; a start date that parses to
\* None closes the block without dates; the inclusive end is the end date,
\* and the start date when there is none.
all_day_dates(e) ==
    LET start_d == parse_date(e.sdate)
        end_p == parse_date(e.edate)
    IN  IF start_d.k = "raised" THEN [k |-> "raised"]
        ELSE IF start_d.k = "none" THEN [k |-> "none"]
        ELSE IF e.edate # "" /\ end_p.k = "raised" THEN [k |-> "raised"]
        ELSE [k |-> "dates", start_d |-> start_d,
              end_d_inclusive |-> IF e.edate # "" /\ end_p.k = "dt" THEN end_p ELSE start_d]

\* The all-day branch: DATE values, the end made exclusive by one more day.
all_day_tail(e) ==
    LET d == all_day_dates(e)
    IN  IF d.k = "raised" THEN Tail_(<<>>, TRUE)
        ELSE IF d.k = "none" THEN Tail_(<<"END:VEVENT">>, FALSE)
        ELSE Tail_(<< "DTSTART;VALUE=DATE:" \o fmt_date(d.start_d),
                      "DTEND;VALUE=DATE:" \o fmt_date(add_one_day(d.end_d_inclusive)),
                      "END:VEVENT" >>, FALSE)

\* The timed branch: local times with the row's TZID; the end falls back to
\* the start date and to the start time.
timed_tail(e) ==
    LET start_dt == parse_datetime(e.sdate, e.stime)
        end_dt == parse_datetime(IF e.edate # "" THEN e.edate ELSE e.sdate,
                                 IF e.etime # "" THEN e.etime ELSE e.stime)
    IN  IF start_dt.k = "raised" \/ end_dt.k = "raised" THEN Tail_(<<>>, TRUE)
        ELSE IF start_dt.k = "none" \/ end_dt.k = "none" THEN Tail_(<<"END:VEVENT">>, FALSE)
        ELSE Tail_(<< "DTSTART;TZID=" \o e.tz \o ":" \o fmt_local(start_dt),
                      "DTEND;TZID=" \o e.tz \o ":" \o fmt_local(end_dt),
                      "END:VEVENT" >>, FALSE)

event_tail(e) == IF is_all_day(e) THEN all_day_tail(e) ELSE timed_tail(e)

\* Lines 124-131: lines before the loop.
calendar_header ==
    << "BEGIN:VCALENDAR", "PRODID:-//YourUni//Class Feeds 1.0//EN", "VERSION:2.0",
       "CALSCALE:GREGORIAN", "METHOD:PUBLISH", AUS_TZ_VTIMEZONE >>

\* The test of the default sheet name instead of the requested one.
default_sheet_missing == "Events" \notin sheetnames

\* args.sheet not in wb.sheetnames
sheet_missing == args_sheet \notin sheetnames

(***************************************************************************)
(* The run.                                                                *)
(***************************************************************************)
\* A run starts: the workbook holds the sheet Events, of one of the
\* layouts and with events of the set evs in its rows, and the sheet asked
\* for is Events, the default, or Timetable.
InitOver(evs) ==
    /\ sheetnames = {"Events"}
    /\ args_sheet \in {"Events", "Timetable"}
    /\ layout \in 1..Len(Layouts)
    /\ table \in SeqsUpTo(evs, MaxRows)
    /\ run = 1
    /\ pc = "start"
    /\ cols = <<>>
    /\ now_utc = ""
    /\ lines = <<>>
    /\ idx = 1
    /\ recs = <<>>
    /\ out = None
    /\ exit_status = -1
    /\ prev = <<>>

Init == InitOver(Catalogue)

\* Lines 90-93: the sheet is not in the workbook; the process exits with 1.
SheetNotFound ==
    /\ pc = "start"
    /\ sheet_missing
    /\ pc' = "fatal"
    /\ exit_status' = 1
    /\ UNCHANGED <<sheetnames, args_sheet, layout, table, run, cols, now_utc, lines,
                   idx, recs, out, prev>>

\* Lines 94-131: the sheet is opened, the header row mapped, the instant
\* read and lines started.
OpenSheet ==
    /\ pc = "start"
    /\ ~sheet_missing
    /\ cols' = ColumnsOf[layout]
    /\ now_utc' = Clock[run]
    /\ lines' = calendar_header
    /\ idx' = 1
    /\ pc' = "loop"
    /\ UNCHANGED <<sheetnames, args_sheet, layout, table, run, recs, out,
                   exit_status, prev>>

\* Lines 135-140: an empty row, or a row without a title, is passed over
\* before anything else is read from it.
SkipRow ==
    /\ pc = "loop"
    /\ idx <= Len(table)
    /\ row_is_empty(ws_row(idx)) \/ cell_text(ws_row(idx), cols.Title) = ""
    /\ idx' = idx + 1
    /\ UNCHANGED <<sheetnames, args_sheet, layout, table, run, pc, cols, now_utc,
                   lines, recs, out, exit_status, prev>>

\* The iteration without the test of lines 158-160: the row falls through
\* to the branches, which close a date-less block.
SkipUndatedUnguarded ==
    /\ pc = "loop"
    /\ idx <= Len(table)
    /\ ~row_is_empty(ws_row(idx))
    /\ cell_text(ws_row(idx), cols.Title) # ""
    /\ extract(idx, ws_row(idx)).sdate = ""
    /\ recs' = Append(recs, extract(idx, ws_row(idx)))
    /\ lines' = lines \o event_head(extract(idx, ws_row(idx)), now_utc) \o <<"END:VEVENT">>
    /\ idx' = idx + 1
    /\ UNCHANGED <<sheetnames, args_sheet, layout, table, run, pc, cols, now_utc,
                   out, exit_status, prev>>

\* Lines 142-160: a row with a title and no start date is passed over once
\* its fields are extracted.
SkipUndated ==
    /\ pc = "loop"
    /\ idx <= Len(table)
    /\ ~row_is_empty(ws_row(idx))
    /\ cell_text(ws_row(idx), cols.Title) # ""
    /\ extract(idx, ws_row(idx)).sdate = ""
    /\ recs' = Append(recs, extract(idx, ws_row(idx)))
    /\ idx' = idx + 1
    /\ UNCHANGED <<sheetnames, args_sheet, layout, table, run, pc, cols, now_utc,
                   lines, out, exit_status, prev>>

\* EmitRow with the event put before the events already in lines.
EmitRowFirst ==
    /\ pc = "loop"
    /\ idx <= Len(table)
    /\ ~row_is_empty(ws_row(idx))
    /\ cell_text(ws_row(idx), cols.Title) # ""
    /\ LET e == extract(idx, ws_row(idx))
       IN  /\ e.sdate # ""
           /\ ~event_tail(e).raised
           /\ recs' = Append(recs, e)
           /\ lines' = calendar_header \o event_head(e, now_utc) \o event_tail(e).lines
                          \o SubSeq(lines, Len(calendar_header) + 1, Len(lines))
    /\ idx' = idx + 1
    /\ UNCHANGED <<sheetnames, args_sheet, layout, table, run, pc, cols, now_utc,
                   out, exit_status, prev>>

\* Lines 142-205 and the end of the loop body: the row's event is appended
\* to lines.
EmitRow ==
    /\ pc = "loop"
    /\ idx <= Len(table)
    /\ ~row_is_empty(ws_row(idx))
    /\ cell_text(ws_row(idx), cols.Title) # ""
    /\ LET e == extract(idx, ws_row(idx))
       IN  /\ e.sdate # ""
           /\ ~event_tail(e).raised
           /\ recs' = Append(recs, e)
           /\ lines' = lines \o event_head(e, now_utc) \o event_tail(e).lines
    /\ idx' = idx + 1
    /\ UNCHANGED <<sheetnames, args_sheet, layout, table, run, pc, cols, now_utc,
                   out, exit_status, prev>>

\* Lines 142-203: strptime raises ValueError on a date or time cell; nothing
\* catches it, and the process ends with a traceback and status 1, the
\* lines of the event's head already appended and nothing written.
RowRaises ==
    /\ pc = "loop"
    /\ idx <= Len(table)
    /\ ~row_is_empty(ws_row(idx))
    /\ cell_text(ws_row(idx), cols.Title) # ""
    /\ LET e == extract(idx, ws_row(idx))
       IN  /\ e.sdate # ""
           /\ event_tail(e).raised
           /\ recs' = Append(recs, e)
           /\ lines' = lines \o event_head(e, now_utc)
    /\ pc' = "crashed"
    /\ exit_status' = 1
    /\ UNCHANGED <<sheetnames, args_sheet, layout, table, run, cols, now_utc, idx,
                   out, prev>>

\* After the loop: the calendar is closed and the whole text written at once.
Finish ==
    /\ pc = "loop"
    /\ idx > Len(table)
    /\ lines' = Append(lines, "END:VCALENDAR")
    /\ out' = Str(join("\n", lines') \o "\n")
    /\ pc' = "done"
    /\ exit_status' = 0
    /\ UNCHANGED <<sheetnames, args_sheet, layout, table, run, cols, now_utc, idx,
                   recs, prev>>

Next == SheetNotFound \/ OpenSheet \/ SkipRow \/ SkipUndated \/ EmitRow \/ RowRaises \/ Finish

Spec == Init /\ [][Next]_vars

\* The program is run again over the same workbook at a later instant.
Rerun ==
    /\ pc \in {"done", "fatal", "crashed"}
    /\ run < MaxRuns
    /\ run' = run + 1
    /\ prev' = Append(prev, [lines |-> lines, recs |-> recs])
    /\ pc' = "start"
    /\ cols' = <<>>
    /\ now_utc' = ""
    /\ lines' = <<>>
    /\ idx' = 1
    /\ recs' = <<>>
    /\ exit_status' = -1
    /\ UNCHANGED <<sheetnames, args_sheet, layout, table, out>>

NextRuns == Next \/ Rerun

InitRuns == InitOver(IdCatalogue)

SpecRuns == InitRuns /\ [][NextRuns]_vars

(***************************************************************************)
(* What the properties are stated with: the sheet as its author sees it,   *)
(* the event blocks of lines, and the values expected of dates and times.  *)
(***************************************************************************)
\* The sheet has a column for field f.
HasColumn(f) == \E c \in 1..Len(Layouts[layout]) : Layouts[layout][c].f = f

\* The cell of field f in data row i; None when the sheet has no such column.
Raw(i, f) == IF HasColumn(f) THEN table[i][f] ELSE None

RECURSIVE OnlySpaces(_)
OnlySpaces(s) == s = "" \/ (Head(s) \in {" ", "\t"} /\ OnlySpaces(Tail(s)))

\* A cell that is absent, empty or whitespace-only.
Blank(c) == c = None \/ OnlySpaces(c[1])

\* The text of a cell without its surrounding blanks; "" for a blank cell.
Text(c) == IF Blank(c) THEN "" ELSE strip(c[1])

\* Row i has a title and a start date.
Qualifies(i) == ~Blank(Raw(i, "title")) /\ ~Blank(Raw(i, "sdate"))

\* The rows among the first n that have a title and a start date, in order.
RECURSIVE QualUpTo(_)
QualUpTo(n) ==
    IF n = 0 THEN <<>>
    ELSE IF Qualifies(n) THEN Append(QualUpTo(n - 1), n) ELSE QualUpTo(n - 1)

\* The rows whose iteration of the loop has ended.
RowsDone == QualUpTo(idx - 1)

\* The positions of the element x in the sequence ls, in order.
RECURSIVE PositionsOf(_, _)
PositionsOf(ls, x) ==
    IF ls = <<>> THEN <<>>
    ELSE LET before == PositionsOf(SubSeq(ls, 1, Len(ls) - 1), x)
         IN  IF ls[Len(ls)] = x THEN Append(before, Len(ls)) ELSE before

StartsWith(s, p) == Len(s) >= Len(p) /\ SubSeq(s, 1, Len(p)) = p

EndsWith(s, p) == Len(s) >= Len(p) /\ SubSeq(s, Len(s) - Len(p) + 1, Len(s)) = p

\* The closed event blocks of ls, in order: each from a BEGIN:VEVENT to the
\* END:VEVENT of the same rank.
Blocks(ls) ==
    LET b == PositionsOf(ls, "BEGIN:VEVENT")
        e == PositionsOf(ls, "END:VEVENT")
    IN  [k \in 1..Len(e) |-> IF k <= Len(b) /\ b[k] <= e[k] THEN SubSeq(ls, b[k], e[k]) ELSE <<>>]

\* The lines of a block that start with the prefix p.
LinesWith(blk, p) == SelectSeq(blk, LAMBDA l : StartsWith(l, p))

Has(blk, l) == \E j \in 1..Len(blk) : blk[j] = l

\* The closed blocks paired with the rows done: block k is of row RowsDone[k].
Paired == 1..(IF Len(Blocks(lines)) < Len(RowsDone) THEN Len(Blocks(lines)) ELSE Len(RowsDone))

\* Dates as cells give them, and the same day and the day after in the
\* calendar's compact form.
SameDay ==
    "2025-03-10" :> "20250310" @@ "2025-03-11" :> "20250311" @@
    "2025-3-9" :> "20250309" @@ "2024-02-28" :> "20240228" @@
    "2025-12-30" :> "20251230" @@ "2025-12-31" :> "20251231"

DayAfter ==
    "2025-03-10" :> "20250311" @@ "2025-03-11" :> "20250312" @@
    "2025-3-9" :> "20250310" @@ "2024-02-28" :> "20240229" @@
    "2025-12-30" :> "20251231" @@ "2025-12-31" :> "20260101"

\* Times as cells give them in the compact form; midnight for no time.
ClockTime == "09:00" :> "090000" @@ "10:30" :> "103000" @@ "" :> "000000"

\* The first non-empty of two texts.
OrElse(a, b) == IF a # "" THEN a ELSE b

AllDayRow(i) == Blank(Raw(i, "stime")) /\ Blank(Raw(i, "etime"))

\* The timezone label of row i: the text of the cell, the default zone when
\* the cell is absent or empty.
TzLabel(i) == IF Truthy(Raw(i, "tz")) THEN strip(Raw(i, "tz")[1]) ELSE DEFAULT_TZ

\* The TRANSPARENT cell of row i, trimmed and lower-cased, is a truthy token.
MarkedFree(i) ==
    /\ Raw(i, "transp") # None
    /\ lower(strip(Raw(i, "transp")[1])) \in {"true", "yes", "y", "1", "transparent", "free"}

(***************************************************************************)
(* The properties.                                                         *)
(***************************************************************************)
\* C1: a row whose Title cell or Start Date cell is absent, empty or
\* whitespace-only, or whose column is missing from the header, has no line
\* at all appended to lines by its iteration of the loop.
C1_BlankRowEmitsNothing ==
    [][(pc = "loop" /\ idx <= Len(table) /\ ~Qualifies(idx)) => lines' = lines]_vars

\* C1 happens: a run ended over a row without a title and a row whose
\* start date is whitespace, and lines holds no event.
C1_Witness ==
    /\ pc = "done"
    /\ Len(table) = 2
    /\ Blank(Raw(1, "title"))
    /\ ~Blank(Raw(2, "title")) /\ Raw(2, "sdate") # None /\ Blank(Raw(2, "sdate"))
    /\ lines = Append(calendar_header, "END:VCALENDAR")

\* C2: the block of a row without start and end time carries exactly one
\* DTSTART and one DTEND, both DATE values: the start date, and the day
\* after the end date (after the start date when no end date is given).
C2_AllDayDates ==
    \A k \in Paired :
        LET i == RowsDone[k]
            blk == Blocks(lines)[k]
            s == Text(Raw(i, "sdate"))
            x == OrElse(Text(Raw(i, "edate")), s)
        IN  AllDayRow(i) =>
                /\ s \in DOMAIN SameDay
                /\ x \in DOMAIN DayAfter
                /\ LinesWith(blk, "DTSTART") = <<"DTSTART;VALUE=DATE:" \o SameDay[s]>>
                /\ LinesWith(blk, "DTEND") = <<"DTEND;VALUE=DATE:" \o DayAfter[x]>>

\* C2 happens: an all-day row whose End Date equals its Start Date
\* 2025-03-10 was emitted with DTEND 20250311, and an all-day row without
\* End Date at the end of February with the first day after it.
C2_Witness ==
    /\ \E k \in Paired :
        /\ AllDayRow(RowsDone[k])
        /\ Text(Raw(RowsDone[k], "edate")) = "2025-03-10"
        /\ Has(Blocks(lines)[k], "DTSTART;VALUE=DATE:20250310")
        /\ Has(Blocks(lines)[k], "DTEND;VALUE=DATE:20250311")
    /\ \E k \in Paired :
        /\ AllDayRow(RowsDone[k])
        /\ Blank(Raw(RowsDone[k], "edate"))
        /\ Has(Blocks(lines)[k], "DTEND;VALUE=DATE:20240229")

IdFields(i) ==
    << Text(Raw(i, "course")), Text(Raw(i, "title")), Text(Raw(i, "sdate")),
       Text(Raw(i, "edate")), Text(Raw(i, "stime")), Text(Raw(i, "etime")),
       Text(Raw(i, "loc")) >>

\* The runs so far, this one last.
RunsSeen == Append(prev, [lines |-> lines, recs |-> recs])

\* The identifiers the runs gave: for each UID line its run, its row, its
\* value, and the row's Unique ID and seven fields; the lines are taken in
\* the order of the rows that got as far as one.
UidsGiven ==
    UNION { LET uids == LinesWith(RunsSeen[r].lines, "UID:")
                rows == SelectSeq(RunsSeen[r].recs, LAMBDA e : e.sdate # "")
            IN  { [run |-> r, row |-> rows[k].row,
                   uid |-> SubSeq(uids[k], 5, Len(uids[k])),
                   own |-> Text(Raw(rows[k].row, "uid")),
                   fields |-> IdFields(rows[k].row)] :
                     k \in 1..(IF Len(uids) < Len(rows) THEN Len(uids) ELSE Len(rows)) }
          : r \in 1..Len(RunsSeen) }

\* The number of fields in which two tuples differ.
FieldsChanged(a, b) == Cardinality({f \in 1..7 : a[f] # b[f]})

\* C5: among the rows without a Unique ID, in one run and across runs, equal
\* field tuples (course, title, start date, end date, start time, end time,
\* location) get the same UID, whatever else the rows hold, and tuples that
\* differ in one field get different UIDs; a row with a Unique ID gets the
\* text of that cell as its UID.
C5_UidOfFields ==
    \A p, q \in UidsGiven :
        /\ p.own # "" => p.uid = p.own
        /\ p.own = "" /\ q.own = "" =>
              /\ FieldsChanged(p.fields, q.fields) = 0 => p.uid = q.uid
              /\ FieldsChanged(p.fields, q.fields) = 1 => p.uid # q.uid

\* C5 happens: a second run ended over two rows of equal tuples that differ
\* in category, description and link, each run giving both rows a derived
\* UID.
C5_Witness ==
    /\ run = 2 /\ pc = "done"
    /\ Len(table) = 2
    /\ Blank(Raw(1, "uid")) /\ Blank(Raw(2, "uid"))
    /\ IdFields(1) = IdFields(2)
    /\ Raw(1, "desc") # Raw(2, "desc") /\ Raw(1, "cat") # Raw(2, "cat")
    /\ {p.row : p \in {q \in UidsGiven : q.run = 1}} = {1, 2}
    /\ {p.row : p \in {q \in UidsGiven : q.run = 2}} = {1, 2}

\* C6: a date or time cell that does not match its format never ends the
\* run: the only run that ends in failure is the one whose sheet is missing.
C6_OnlyMissingSheetIsFatal ==
    (pc \in {"fatal", "crashed"} \/ exit_status > 0) => args_sheet \notin sheetnames

\* C7: when the requested sheet is not in the workbook, the run ends with a
\* nonzero status, no row read, no line built and nothing written.
C7_MissingSheetWritesNothing ==
    (args_sheet \notin sheetnames /\ pc # "start") =>
        /\ pc = "fatal"
        /\ exit_status > 0
        /\ out = None
        /\ idx = 1 /\ recs = <<>> /\ lines = <<>>

\* C7 happens: a run over a workbook with two data rows ended on the fatal
\* path.
C7_Witness == pc = "fatal" /\ exit_status = 1 /\ Len(table) = 2 /\ args_sheet = "Timetable"

\* C8: the document of a run that ended is the five header lines, the one
\* VTIMEZONE block, one closed event block for each row with a title and a
\* start date, in the order of the rows and with nothing between them, and
\* END:VCALENDAR as the last line; the file holds these lines, each ended
\* by a line feed.
C8_Document ==
    pc = "done" =>
        LET b == PositionsOf(lines, "BEGIN:VEVENT")
            e == PositionsOf(lines, "END:VEVENT")
            q == QualUpTo(Len(table))
        IN  /\ out = Str(join("\n", lines) \o "\n")
            /\ Len(lines) >= 7
            /\ SubSeq(lines, 1, 5) =
                   << "BEGIN:VCALENDAR", "PRODID:-//YourUni//Class Feeds 1.0//EN",
                      "VERSION:2.0", "CALSCALE:GREGORIAN", "METHOD:PUBLISH" >>
            /\ StartsWith(lines[6], "BEGIN:VTIMEZONE\n")
            /\ EndsWith(lines[6], "\nEND:VTIMEZONE")
            /\ \A j \in 1..Len(lines) : StartsWith(lines[j], "BEGIN:VTIMEZONE") => j = 6
            /\ PositionsOf(lines, "END:VCALENDAR") = <<Len(lines)>>
            /\ Len(b) = Len(q) /\ Len(e) = Len(q)
            /\ \A k \in 1..Len(q) :
                  /\ b[k] < e[k]
                  /\ b[k] = (IF k = 1 THEN 7 ELSE e[k - 1] + 1)
                  /\ \E j \in (b[k] + 1)..(e[k] - 1) :
                        /\ StartsWith(lines[j], "SUMMARY:" \o Text(Raw(q[k], "course")))
                        /\ EndsWith(lines[j], Text(Raw(q[k], "title")))
                  /\ LinesWith(SubSeq(lines, b[k], e[k]), "LOCATION:") =
                        (IF Blank(Raw(q[k], "loc")) THEN <<>>
                         ELSE <<"LOCATION:" \o Text(Raw(q[k], "loc"))>>)
            /\ Len(lines) = (IF Len(q) = 0 THEN 7 ELSE e[Len(q)] + 1)

\* C8 happens: a run ended over two rows with different titles, both with
\* a title and a start date, and lines holds two closed blocks.
C8_Witness ==
    /\ pc = "done"
    /\ Len(table) = 2
    /\ Qualifies(1) /\ Qualifies(2)
    /\ Text(Raw(1, "title")) # Text(Raw(2, "title"))
    /\ Len(Blocks(lines)) = 2

\* C9: every event block holds exactly one SUMMARY line: the course code,
\* " - " and the title when the row has a course code, as in
\* SUMMARY:CS101 - Lecture, and the title alone when it has none.
C9_SummaryDash ==
    \A k \in Paired :
        LET c == Text(Raw(RowsDone[k], "course"))
            t == Text(Raw(RowsDone[k], "title"))
        IN  LinesWith(Blocks(lines)[k], "SUMMARY") =
                <<"SUMMARY:" \o (IF c # "" THEN c \o " - " \o t ELSE t)>>

\* C10: the timezone extracted from a row is never the empty string: an
\* absent, empty or whitespace-only Timezone cell, and a missing Timezone
\* column, give the default zone.
C10_TimezoneNeverEmpty ==
    \A k \in 1..Len(recs) :
        /\ recs[k].tz # ""
        /\ Blank(Raw(recs[k].row, "tz")) => recs[k].tz = DEFAULT_TZ
=============================================================================
